---- MODULE Spec2Model ----
(***************************************************************************)
(* The ETL pipeline of the sales data warehouse (src/utils/etl_utils.py)   *)
(* against the schema of src/utils/db_setup.py.                            *)
(*                                                                         *)
(* The persistent store is a function from table names to bags of rows; a  *)
(* row is a function from column names to values.  Every operation opens   *)
(* its own psycopg2 connection, which starts a transaction at the first    *)
(* statement and makes its effects durable only at conn.commit(): an       *)
(* exception before the commit leaves the store as it was.                 *)
(*                                                                         *)
(* Spec is the pipeline with its source files replaced between runs;       *)
(* RetrySpec and RunSpec observe its runs; SetupSpec adds setup_database;  *)
(* ManagerSpec is the connection handling and CleanSpec the data cleaning  *)
(* of src/best_practices.py and src/utils/db_utils.py.                     *)
(***************************************************************************)
EXTENDS Integers, Sequences, FiniteSets, Bags, TLC

\* ---------------------------------------------------------------- bounds
MaxRows  == 2      \* longest source file, in rows
MaxSetups == 3     \* calls of setup_database in one behaviour
MaxCalls == 2      \* calls through the connection managers in one behaviour
MaxParams == 2     \* longest params_list of execute_many
MaxFrameRows == 3  \* longest frame handed to _clean_data, in rows
MaxEdits == 1      \* source-file replacements in one behaviour

\* ---------------------------------------------------------------- schema
StagingTables == {"stg_products", "stg_customers", "stg_time_dimension",
                  "stg_stores", "stg_sales", "stg_inventory"}
DimTables     == {"dim_product", "dim_customer", "dim_time", "dim_store"}
FactTables    == {"fact_sales", "fact_inventory"}
Tables        == StagingTables \cup DimTables \cup FactTables

\* Primary key column of each dimension and fact table.
KeyOf == [dim_product    |-> "product_id",
          dim_customer   |-> "customer_id",
          dim_time       |-> "date_id",
          dim_store      |-> "store_id",
          fact_sales     |-> "sale_id",
          fact_inventory |-> "inventory_id"]

\* FOREIGN KEY (col) REFERENCES ref(KeyOf[ref]) of the fact tables.
ForeignKeys ==
  [fact_sales     |-> {[col |-> "date_id",     ref |-> "dim_time"],
                       [col |-> "product_id",  ref |-> "dim_product"],
                       [col |-> "customer_id", ref |-> "dim_customer"],
                       [col |-> "store_id",    ref |-> "dim_store"]},
   fact_inventory |-> {[col |-> "date_id",     ref |-> "dim_time"],
                       [col |-> "product_id",  ref |-> "dim_product"],
                       [col |-> "store_id",    ref |-> "dim_store"]}]

\* ------------------------------------------------------------------ rows
\* One column stands for the attributes a table's SET list names together
\* (product_name for product_name..cost, and so on); created_date and
\* modified_date are kept apart because the SET lists treat them apart.
\* A generated file carries created_date = modified_date (data_generator).
Prod(k, v)  == [product_id |-> k, product_name |-> v,
                created_date |-> v, modified_date |-> v]
Cust(k, v)  == [customer_id |-> k, first_name |-> v,
                created_date |-> v, modified_date |-> v]
Time(k, v)  == [date_id |-> k, is_holiday |-> v]
Store(k, v) == [store_id |-> k, store_name |-> v,
                created_date |-> v, modified_date |-> v]
Sale(k, p, q) == [sale_id |-> k, date_id |-> 1, product_id |-> p,
                  customer_id |-> 1, store_id |-> 1, quantity |-> q]
Inv(k, p, q)  == [inventory_id |-> k, date_id |-> 1, product_id |-> p,
                  store_id |-> 1, ending_quantity |-> q]

\* The six source files of run_etl and the rows each may hold.
CsvFiles == {"products.csv", "customers.csv", "time_dimension.csv",
             "stores.csv", "sales.csv", "inventory.csv"}

FileRows(f) ==
  CASE f = "products.csv"       -> <<Prod(1, 0), Prod(1, 1), Prod(2, 0)>>
    [] f = "customers.csv"      -> <<Cust(1, 0)>>
    [] f = "time_dimension.csv" -> <<Time(1, 0)>>
    [] f = "stores.csv"         -> <<Store(1, 0)>>
    [] f = "sales.csv"          -> <<Sale(1, 1, 0), Sale(1, 1, 1), Sale(1, 2, 0),
                                     Sale(2, 2, 0)>>
    [] f = "inventory.csv"      -> <<Inv(1, 1, 0), Inv(1, 2, 0)>>

\* The contents a source file may have: up to MaxRows rows, duplicates
\* included.  The store keeps no row order, so one order per multiset of
\* rows is enumerated.
FileContents(f) ==
  LET rows == FileRows(f)
      Idx  == UNION {[1..m -> DOMAIN rows] : m \in 0..MaxRows}
  IN  {[i \in DOMAIN ix |-> rows[ix[i]]] :
         ix \in {x \in Idx : \A i \in DOMAIN x, j \in DOMAIN x :
                                 i < j => x[i] <= x[j]}}

\* The files generate_all_data leaves behind: one consistent data set.
GeneratedFiles ==
  [f \in CsvFiles |->
     CASE f = "products.csv"       -> <<Prod(1, 0)>>
       [] f = "customers.csv"      -> <<Cust(1, 0)>>
       [] f = "time_dimension.csv" -> <<Time(1, 0)>>
       [] f = "stores.csv"         -> <<Store(1, 0)>>
       [] f = "sales.csv"          -> <<Sale(1, 1, 0)>>
       [] f = "inventory.csv"      -> <<Inv(1, 1, 0)>>]

\* The columns of each staging table, in the order of CREATE TABLE.
StagingColumns ==
  [stg_products       |-> <<"product_id", "product_name", "created_date",
                            "modified_date">>,
   stg_customers      |-> <<"customer_id", "first_name", "created_date",
                            "modified_date">>,
   stg_time_dimension |-> <<"date_id", "is_holiday">>,
   stg_stores         |-> <<"store_id", "store_name", "created_date",
                            "modified_date">>,
   stg_sales          |-> <<"sale_id", "date_id", "product_id", "customer_id",
                            "store_id", "quantity">>,
   stg_inventory      |-> <<"inventory_id", "date_id", "product_id",
                            "store_id", "ending_quantity">>]

\* The staging table run_etl loads each source file into.
StagingOf ==
  [f \in CsvFiles |->
     CASE f = "products.csv"       -> "stg_products"
       [] f = "customers.csv"      -> "stg_customers"
       [] f = "time_dimension.csv" -> "stg_time_dimension"
       [] f = "stores.csv"         -> "stg_stores"
       [] f = "sales.csv"          -> "stg_sales"
       [] f = "inventory.csv"      -> "stg_inventory"]

Reverse(s) == [i \in DOMAIN s |-> s[Len(s) + 1 - i]]

Range(s) == {s[i] : i \in DOMAIN s}

\* The header lines a source file may have: the columns of its staging
\* table in the table's order, in another order, and with one more column.
FileHeaders(f) ==
  {StagingColumns[StagingOf[f]],
   Reverse(StagingColumns[StagingOf[f]]),
   Append(StagingColumns[StagingOf[f]], "notes")}

\* generate_all_data writes the columns in the order of the staging table.
GeneratedHeaders == [f \in CsvFiles |-> StagingColumns[StagingOf[f]]]

\* The cell of a parsed row under column c; every cell of a column that the
\* model's rows do not carry holds the same value.
Cell(row, c) == IF c \in DOMAIN row THEN row[c] ELSE 0

\* [tuple(x) for x in df.values]: the rows as tuples of cells in header
\* order.
Data(header, rows) ==
  [j \in DOMAIN rows |-> [i \in DOMAIN header |-> Cell(rows[j], header[i])]]

\* ------------------------------------------------------------------ bags
SeqToBag(s) ==
  [r \in {s[i] : i \in DOMAIN s} |-> Cardinality({i \in DOMAIN s : s[i] = r})]

RowsWithKey(table, kc, k) == {r \in BagToSet(table) : r[kc] = k}

\* Number of rows of a table whose key column holds k.
RECURSIVE CountRows(_, _)
CountRows(table, rows) ==
  IF rows = {} THEN 0
  ELSE LET r == CHOOSE x \in rows : TRUE
       IN  CopiesIn(r, table) + CountRows(table, rows \ {r})

KeyCount(table, kc, k) == CountRows(table, RowsWithKey(table, kc, k))

KeysIn(table, kc) == {r[kc] : r \in BagToSet(table)}

\* ------------------------------------------------------- SQL statements
\* The columns named by each statement's ON CONFLICT ... DO UPDATE SET list.
UpdateSet ==
  [dim_product    |-> {"product_name", "modified_date"},
   dim_customer   |-> {"first_name", "modified_date"},
   dim_time       |-> {"is_holiday"},
   dim_store      |-> {"store_name", "modified_date"},
   fact_sales     |-> {"date_id", "product_id", "customer_id", "store_id",
                       "quantity"},
   fact_inventory |-> {"date_id", "product_id", "store_id",
                       "ending_quantity"}]

\* The four statements of load_dimension_tables, in execution order.
DimStatements ==
  << [target |-> "dim_product",  staging |-> "stg_products",
      distinct |-> TRUE],
     [target |-> "dim_customer", staging |-> "stg_customers",
      distinct |-> TRUE],
     [target |-> "dim_time",     staging |-> "stg_time_dimension",
      distinct |-> TRUE],
     [target |-> "dim_store",    staging |-> "stg_stores",
      distinct |-> TRUE] >>

\* The two statements of load_fact_tables: SELECT *, without DISTINCT.
FactStatements ==
  << [target |-> "fact_sales",     staging |-> "stg_sales",
      distinct |-> FALSE],
     [target |-> "fact_inventory", staging |-> "stg_inventory",
      distinct |-> FALSE] >>

\* Faulty variant: the TRUNCATE empties every staging table.
TruncateEveryStaging(w, t) ==
  [x \in DOMAIN w |-> IF x \in StagingTables THEN EmptyBag ELSE w[x]]

\* Faulty variant: the TRUNCATE is left out.
TruncateSkipped(w, t) == w

\* TRUNCATE TABLE staging.t
Truncate(w, t) == [w EXCEPT ![t] = EmptyBag]

\* The row INSERT INTO staging.t (columns) VALUES tuple stores: each named
\* column takes the value at its position in the list, any other column of
\* the table is NULL.
StoredRow(t, columns, tuple) ==
  [c \in Range(StagingColumns[t]) |->
     IF c \in Range(columns)
     THEN tuple[CHOOSE i \in DOMAIN columns : columns[i] = c]
     ELSE "NULL"]

\* The INSERT names a column the staging table lacks; execute_values sends
\* no statement for an empty list of rows.
UndefinedColumn(t, columns, data) ==
  data # <<>> /\ ~(Range(columns) \subseteq Range(StagingColumns[t]))

\* Faulty variant: the values are stored in the table's column order, whatever
\* order the INSERT names the columns in.
BulkInsertPositional(w, t, columns, data) ==
  [w EXCEPT ![t] = @ (+) SeqToBag(
     [j \in DOMAIN data |->
        [c \in Range(StagingColumns[t]) |->
           data[j][CHOOSE i \in DOMAIN StagingColumns[t] :
                      StagingColumns[t][i] = c]]])]

\* execute_values(cur, "INSERT INTO staging.t (columns) VALUES %s", data)
BulkInsert(w, t, columns, data) ==
  [w EXCEPT ![t] = @ (+) SeqToBag(
     [j \in DOMAIN data |-> StoredRow(t, columns, data[j])])]

\* SELECT [DISTINCT] * FROM staging
SelectRows(table, distinct) ==
  IF distinct THEN SetToBag(BagToSet(table)) ELSE table

\* Faulty variant: the conflicting row is replaced by the proposed row as a whole.
ConflictReplace(old, excluded, setCols) == excluded

\* DO UPDATE SET c = EXCLUDED.c for the columns of the SET list.
ConflictUpdate(old, excluded, setCols) ==
  [c \in DOMAIN old |-> IF c \in setCols THEN excluded[c] ELSE old[c]]

\* Faulty variant: a plain INSERT into a table without its primary key.
InsertOneNoConflict(table, r, kc, setCols) == table (+) SetToBag({r})

\* Faulty variant: an UPDATE of the rows that exist, without the INSERT.
InsertOneUpdateOnly(table, r, kc, setCols) ==
  LET hit == RowsWithKey(table, kc, r[kc])
  IN  IF hit = {}
      THEN table
      ELSE LET old == CHOOSE t \in hit : TRUE
           IN  (table (-) SetToBag({old}))
                 (+) SetToBag({ConflictUpdate(old, r, setCols)})

\* INSERT of one proposed row with ON CONFLICT (kc) DO UPDATE.
InsertOne(table, r, kc, setCols) ==
  LET hit == RowsWithKey(table, kc, r[kc])
  IN  IF hit = {}
      THEN table (+) SetToBag({r})
      ELSE LET old == CHOOSE t \in hit : TRUE
           IN  (table (-) SetToBag({old}))
                 (+) SetToBag({ConflictUpdate(old, r, setCols)})

RECURSIVE InsertAll(_, _, _, _)
InsertAll(table, rows, kc, setCols) ==
  IF rows = {} THEN table
  ELSE LET r == CHOOSE x \in rows : TRUE
       IN  InsertAll(InsertOne(table, r, kc, setCols), rows \ {r}, kc, setCols)

\* Faulty variant: a key proposed twice by one statement is not an error, the
\* row proposed last overwrites the one proposed first.
CardinalityViolationNever(src, kc) == FALSE

\* "ON CONFLICT DO UPDATE command cannot affect row a second time": two
\* proposed rows of one statement carry the same key.
CardinalityViolation(src, kc) ==
  \E k \in KeysIn(src, kc) : KeyCount(src, kc, k) > 1

FKs(t) == IF t \in FactTables THEN ForeignKeys[t] ELSE {}

\* Faulty variant: the fact tables are created without FOREIGN KEY constraints.
FkViolationIgnored(w, t, rows) == FALSE

\* The foreign keys of the rows a statement wrote, checked at its end.
FkViolation(w, t, rows) ==
  \E r \in rows, fk \in FKs(t) :
     RowsWithKey(w[fk.ref], KeyOf[fk.ref], r[fk.col]) = {}

\* Faulty variant: the rows are inserted one by one and a row whose foreign
\* key fails is skipped, so the rows that pass are written without the rest.
ExecUpsertSkipping(w, st) ==
  LET kc   == KeyOf[st.target]
      src  == SelectRows(w[st.staging], st.distinct)
      good == {r \in BagToSet(src) : ~FkViolation(w, st.target, {r})}
      new  == InsertAll(w[st.target], good, kc, UpdateSet[st.target])
  IN  IF CardinalityViolation(src, kc)
      THEN [err |-> "cardinality", db |-> w]
      ELSE [err |-> "none", db |-> [w EXCEPT ![st.target] = new]]

\* Faulty variant: the statement consumes its staging rows, the staging table
\* is empty after the merge.
ExecUpsertConsuming(w, st) ==
  LET kc  == KeyOf[st.target]
      src == SelectRows(w[st.staging], st.distinct)
      new == InsertAll(w[st.target], BagToSet(src), kc, UpdateSet[st.target])
      written == {r \in BagToSet(new) : r[kc] \in KeysIn(src, kc)}
  IN  IF CardinalityViolation(src, kc)
      THEN [err |-> "cardinality", db |-> w]
      ELSE IF FkViolation(w, st.target, written)
      THEN [err |-> "foreign_key", db |-> w]
      ELSE [err |-> "none",
            db |-> [w EXCEPT ![st.target] = new, ![st.staging] = EmptyBag]]

\* Faulty variant: the target is synchronised with staging (rows absent from
\* staging are deleted).
ExecUpsertSync(w, st) ==
  LET kc  == KeyOf[st.target]
      src == SelectRows(w[st.staging], st.distinct)
      new == InsertAll(EmptyBag, BagToSet(src), kc, UpdateSet[st.target])
  IN  IF CardinalityViolation(src, kc)
      THEN [err |-> "cardinality", db |-> w]
      ELSE IF FkViolation(w, st.target, BagToSet(new))
      THEN [err |-> "foreign_key", db |-> w]
      ELSE [err |-> "none", db |-> [w EXCEPT ![st.target] = new]]

\* INSERT INTO target SELECT [DISTINCT] * FROM staging ON CONFLICT (key)
\* DO UPDATE SET ...: the store after it, or the error it raises.
ExecUpsert(w, st) ==
  LET kc  == KeyOf[st.target]
      src == SelectRows(w[st.staging], st.distinct)
      new == InsertAll(w[st.target], BagToSet(src), kc, UpdateSet[st.target])
      written == {r \in BagToSet(new) : r[kc] \in KeysIn(src, kc)}
  IN  IF CardinalityViolation(src, kc)
      THEN [err |-> "cardinality", db |-> w]
      ELSE IF FkViolation(w, st.target, written)
      THEN [err |-> "foreign_key", db |-> w]
      ELSE [err |-> "none", db |-> [w EXCEPT ![st.target] = new]]

\* The statements of one connection, in order; the first error raises.
RECURSIVE ExecAll(_, _)
ExecAll(w, stmts) ==
  IF stmts = <<>> THEN [err |-> "none", db |-> w]
  ELSE LET r == ExecUpsert(w, Head(stmts))
       IN  IF r.err # "none" THEN r ELSE ExecAll(r.db, Tail(stmts))

\* Faulty variant: the connection is in autocommit mode, every statement is
\* durable as soon as it has run.
CommitEachStatement(before, r) ==
  [err |-> r.err, db |-> r.db,
   conn |-> IF r.err = "none" THEN "closed" ELSE "open"]

\* conn.commit(), cur.close() and conn.close() are reached only when no
\* statement raised; otherwise the exception leaves the function with the
\* transaction uncommitted and the connection not closed, and the store
\* keeps the contents it had when the connection was opened.
Commit(before, r) ==
  IF r.err = "none"
  THEN [err |-> "none", db |-> r.db, conn |-> "closed"]
  ELSE [err |-> r.err, db |-> before, conn |-> "open"]

\* psycopg2.connect raised: there is no connection.
NoConnection(store, err) == [err |-> err, db |-> store, conn |-> "none"]

\* ------------------------------------------------------------ operations
\* Faulty variant: load_csv_to_staging ends with "return len(data)".
ReturnedRowCount(data) == <<Len(data)>>

\* The value a call of load_csv_to_staging hands back: the function is
\* declared "-> None" and has no return statement, so the call yields None.
\* None is written <<>>, a returned value v would be written <<v>>.
Returned(data) == <<>>

\* The row count in the message
\* "Loaded {len(data)} rows into staging.{staging_table}".
Reported(data) == <<Len(data)>>

\* The outcome of a call as its caller sees it: a call that raises hands back
\* nothing and has not reached its closing message.
Result(r, ret, rows) ==
  [err |-> r.err, db |-> r.db, conn |-> r.conn,
   ret  |-> IF r.err = "none" THEN ret ELSE <<>>,
   rows |-> IF r.err = "none" THEN rows ELSE <<>>]

\* Faulty variant: load_csv_to_staging connects and truncates before it
\* reads the file.
LoadCsvToStagingConnectFirst(store, header, rows, t, readable, up) ==
  IF ~up THEN Result(NoConnection(store, "connect"), <<>>, <<>>)
  ELSE LET truncated == Truncate(store, t)
           data      == Data(header, rows)
       IN  IF ~readable
           THEN Result(Commit(store, [err |-> "io", db |-> truncated]),
                       <<>>, <<>>)
           ELSE IF UndefinedColumn(t, header, data)
           THEN Result(Commit(store, [err |-> "insert", db |-> truncated]),
                       <<>>, <<>>)
           ELSE Result(Commit(store,
                              [err |-> "none",
                               db |-> BulkInsert(truncated, t, header, data)]),
                       Returned(data), Reported(data))

\* load_csv_to_staging(csv_file, staging_table)
LoadCsvToStaging(store, header, rows, t, readable, up) ==
  IF ~readable THEN Result(NoConnection(store, "io"), <<>>, <<>>)
  ELSE IF ~up THEN Result(NoConnection(store, "connect"), <<>>, <<>>)
  ELSE LET truncated == Truncate(store, t)
           data      == Data(header, rows)
           columns   == header
       IN  IF UndefinedColumn(t, columns, data)
           THEN Result(Commit(store, [err |-> "insert", db |-> truncated]),
                       <<>>, <<>>)
           ELSE Result(Commit(store,
                              [err |-> "none",
                               db |-> BulkInsert(truncated, t, columns, data)]),
                       Returned(data), Reported(data))

\* Faulty variant: load_dimension_tables without its conn.commit().
LoadDimensionTablesNoCommit(store, up) ==
  IF ~up THEN Result(NoConnection(store, "connect"), <<>>, <<>>)
  ELSE Result([err |-> ExecAll(store, DimStatements).err, db |-> store,
               conn |-> "closed"], <<>>, <<>>)

\* load_dimension_tables()
LoadDimensionTables(store, up) ==
  IF ~up THEN Result(NoConnection(store, "connect"), <<>>, <<>>)
  ELSE Result(Commit(store, ExecAll(store, DimStatements)), <<>>, <<>>)

\* load_fact_tables()
LoadFactTables(store, up) ==
  IF ~up THEN Result(NoConnection(store, "connect"), <<>>, <<>>)
  ELSE Result(Commit(store, ExecAll(store, FactStatements)), <<>>, <<>>)

\* Faulty variant: run_etl merges the facts before the dimensions.
RunStepsFactsFirst ==
  << [op |-> "load_csv_to_staging", csv |-> "products.csv",
      table |-> "stg_products"],
     [op |-> "load_csv_to_staging", csv |-> "customers.csv",
      table |-> "stg_customers"],
     [op |-> "load_csv_to_staging", csv |-> "time_dimension.csv",
      table |-> "stg_time_dimension"],
     [op |-> "load_csv_to_staging", csv |-> "stores.csv",
      table |-> "stg_stores"],
     [op |-> "load_csv_to_staging", csv |-> "sales.csv",
      table |-> "stg_sales"],
     [op |-> "load_csv_to_staging", csv |-> "inventory.csv",
      table |-> "stg_inventory"],
     [op |-> "load_fact_tables", csv |-> "", table |-> ""],
     [op |-> "load_dimension_tables", csv |-> "", table |-> ""] >>

\* The calls of run_etl, in program order.
RunSteps ==
  << [op |-> "load_csv_to_staging", csv |-> "products.csv",
      table |-> "stg_products"],
     [op |-> "load_csv_to_staging", csv |-> "customers.csv",
      table |-> "stg_customers"],
     [op |-> "load_csv_to_staging", csv |-> "time_dimension.csv",
      table |-> "stg_time_dimension"],
     [op |-> "load_csv_to_staging", csv |-> "stores.csv",
      table |-> "stg_stores"],
     [op |-> "load_csv_to_staging", csv |-> "sales.csv",
      table |-> "stg_sales"],
     [op |-> "load_csv_to_staging", csv |-> "inventory.csv",
      table |-> "stg_inventory"],
     [op |-> "load_dimension_tables", csv |-> "", table |-> ""],
     [op |-> "load_fact_tables", csv |-> "", table |-> ""] >>

TargetTables == DimTables \cup FactTables

\* The dimension and fact tables of a store.
TargetsOf(store) == [t \in TargetTables |-> store[t]]

\* The call RunSteps[i] on a store, with the files as they are.
Call(step, store, hdrs, fls, readable, up) ==
  CASE step.op = "load_csv_to_staging" ->
         LoadCsvToStaging(store, hdrs[step.csv], fls[step.csv], step.table,
                          readable, up)
    [] step.op = "load_dimension_tables" -> LoadDimensionTables(store, up)
    [] step.op = "load_fact_tables" -> LoadFactTables(store, up)

\* run_etl() from call i on, every file readable and the store reachable:
\* the store it leaves, or the error of the first call that raises.
RECURSIVE RunFrom(_, _, _, _)
RunFrom(store, hdrs, fls, i) ==
  IF i > Len(RunSteps) THEN [err |-> "none", db |-> store]
  ELSE LET r == Call(RunSteps[i], store, hdrs, fls, TRUE, TRUE)
       IN  IF r.err # "none" THEN [err |-> r.err, db |-> r.db]
           ELSE RunFrom(r.db, hdrs, fls, i + 1)

\* run_etl() over dimension and fact tables `targets`; what the staging
\* tables held is of no account, each is truncated before it is read.
RunEtl(targets, hdrs, fls) ==
  RunFrom([t \in Tables |-> IF t \in TargetTables THEN targets[t]
                                                   ELSE EmptyBag],
          hdrs, fls, 1)

\* ------------------------------------------------------------------ state
VARIABLES
  files,    \* the source files in the raw data directory: name -> rows
  headers,  \* the header line of each source file: name -> column names
  db,       \* the store: table name -> bag of rows
  status,   \* of run_etl: "running", "done" or "failed"; "idle" when no run
            \* was made on the current files
  pc,       \* index into RunSteps of the next call of the running run_etl
  log,      \* the calls the current (or last) run on the current files has
            \* made, each with its outcome
  pre,      \* the store as it was when the last call of log was made
  rerun,    \* the current run follows a completed run, on the same files
  edited,   \* a source file was replaced since the last run started
  retry,    \* RetrySpec: the current run follows a failed run, on the
            \* same files
  start,    \* RetrySpec: the dimension and fact tables when the first of
            \* the runs on the current files started
  edits,    \* source-file replacements so far
  catalog,  \* SetupSpec: the database and the schemas the server holds
  setups,   \* SetupSpec: the calls of setup_database so far and the
            \* outcome of the last one
  mgr,      \* ManagerSpec: the connections opened through the context
            \* managers and the calls made, each with what it raised
  frame,    \* CleanSpec: the frame handed to _clean_data
  cleaned   \* CleanSpec: the frame _clean_data returned, in a sequence
            \* that is empty before the call

\* The variables run_etl neither reads nor writes.
aux == <<catalog, setups, mgr, frame, cleaned>>

vars == <<files, headers, db, status, pc, log, pre, rerun, edited, retry,
          start, edits, catalog, setups, mgr, frame, cleaned>>

\* The schemas of config.SCHEMA_CONFIG.
Schemas == {"sales_dw", "staging", "dimensions", "facts"}

\* After setup_database the server holds the database and its four schemas;
\* setup_database has been called once, with success.
StoreSetUp ==
  /\ catalog = [database |-> TRUE, schemas |-> Schemas]
  /\ setups = [n |-> 1, ok |-> TRUE, up |-> TRUE, found |-> "nothing"]

\* No call has been made through the context managers, and no frame has
\* been handed to _clean_data.
NothingCalled ==
  /\ mgr = [conns |-> <<>>, calls |-> <<>>]
  /\ frame = [A |-> <<>>, B |-> <<>>,
              dtype |-> [A |-> "float64", B |-> "object"]]
  /\ cleaned = <<>>

\* After setup_database: every table exists and is empty.
Init ==
  /\ files = GeneratedFiles
  /\ headers = GeneratedHeaders
  /\ db = [t \in Tables |-> EmptyBag]
  /\ status = "idle"
  /\ pc = 1
  /\ log = <<>>
  /\ pre = [t \in Tables |-> EmptyBag]
  /\ rerun = FALSE
  /\ edited = FALSE
  /\ retry = FALSE
  /\ start = [t \in TargetTables |-> EmptyBag]
  /\ edits = 0
  /\ StoreSetUp
  /\ NothingCalled

\* A source file is replaced between two runs (by generate_data or by hand):
\* its rows or its header line change.  What the run before it called is
\* of no account for the runs on the new files and is forgotten.
EditFile ==
  /\ status # "running"
  /\ edits < MaxEdits
  /\ \E f \in CsvFiles :
        \/ \E c \in FileContents(f) :
              /\ c # files[f]
              /\ files' = [files EXCEPT ![f] = c]
              /\ UNCHANGED headers
        \/ \E h \in FileHeaders(f) :
              /\ h # headers[f]
              /\ headers' = [headers EXCEPT ![f] = h]
              /\ UNCHANGED files
  /\ edits' = edits + 1
  /\ edited' = TRUE
  /\ status' = "idle"
  /\ pc' = 1
  /\ log' = <<>>
  /\ pre' = db
  /\ UNCHANGED <<db, rerun, retry, start, aux>>

\* run_etl() is called; any number of runs may follow one another.
StartRun ==
  /\ status # "running"
  /\ status' = "running"
  /\ pc' = 1
  /\ log' = <<>>
  /\ rerun' = (status = "done" /\ ~edited)
  /\ edited' = FALSE
  /\ UNCHANGED <<files, headers, db, pre, edits, retry, start, aux>>

\* Faulty variant: a call that raises leaves run_etl in neither terminal
\* phase.
ControlAfterAbandoning(err, at) ==
  IF err # "none"
  THEN [status |-> "idle", pc |-> at]
  ELSE [status |-> IF at = Len(RunSteps) THEN "done" ELSE "running",
        pc |-> at + 1]

\* Faulty variant: run_etl catches the exception of a call and goes on.
ControlAfterSwallowing(err, at) ==
  [status |-> IF at = Len(RunSteps) THEN "done" ELSE "running", pc |-> at + 1]

\* Control flow of run_etl after the call at index `at`: it has no handler,
\* so an exception propagates out of it at once; otherwise the next call
\* follows, and after the last one it returns.
ControlAfter(err, at) ==
  IF err # "none"
  THEN [status |-> "failed", pc |-> at]
  ELSE [status |-> IF at = Len(RunSteps) THEN "done" ELSE "running",
        pc |-> at + 1]

\* One call of run_etl with result r: the store takes the call's outcome.
AfterStep(step, r) ==
  /\ log' = Append(log, [op |-> step.op, csv |-> step.csv,
                         table |-> step.table,
                         ok |-> r.err = "none", err |-> r.err,
                         conn |-> r.conn, ret |-> r.ret,
                         rows |-> r.rows])
  /\ pre' = db
  /\ db' = r.db
  /\ status' = ControlAfter(r.err, pc).status
  /\ pc' = ControlAfter(r.err, pc).pc
  /\ UNCHANGED <<files, headers, rerun, edited, retry, start, edits, aux>>

StageStep ==
  /\ status = "running"
  /\ RunSteps[pc].op = "load_csv_to_staging"
  /\ \E readable \in BOOLEAN, up \in BOOLEAN :
        AfterStep(RunSteps[pc],
                  LoadCsvToStaging(db, headers[RunSteps[pc].csv],
                                   files[RunSteps[pc].csv],
                                   RunSteps[pc].table, readable, up))

MergeDimensionsStep ==
  /\ status = "running"
  /\ RunSteps[pc].op = "load_dimension_tables"
  /\ \E up \in BOOLEAN : AfterStep(RunSteps[pc], LoadDimensionTables(db, up))

MergeFactsStep ==
  /\ status = "running"
  /\ RunSteps[pc].op = "load_fact_tables"
  /\ \E up \in BOOLEAN : AfterStep(RunSteps[pc], LoadFactTables(db, up))

Next ==
  \/ EditFile
  \/ StartRun
  \/ StageStep
  \/ MergeDimensionsStep
  \/ MergeFactsStep

Spec == Init /\ [][Next]_vars

\* ------------------------------------------------ runs on the files found
\* The source files a run may find: those generate_all_data wrote, or those
\* with the rows or the header line of one file replaced.
FilesFound ==
  {<<GeneratedFiles, GeneratedHeaders>>}
    \cup UNION {{<<[GeneratedFiles EXCEPT ![f] = c], GeneratedHeaders>> :
                    c \in FileContents(f)} : f \in CsvFiles}
    \cup UNION {{<<GeneratedFiles, [GeneratedHeaders EXCEPT ![f] = h]>> :
                    h \in FileHeaders(f)} : f \in CsvFiles}

\* The store as setup_database leaves it, before the first run, with the
\* source files already in place.
RunInit ==
  /\ \E found \in FilesFound : files = found[1] /\ headers = found[2]
  /\ db = [t \in Tables |-> EmptyBag]
  /\ status = "idle"
  /\ pc = 1
  /\ log = <<>>
  /\ pre = [t \in Tables |-> EmptyBag]
  /\ rerun = FALSE
  /\ edited = (<<files, headers>> # <<GeneratedFiles, GeneratedHeaders>>)
  /\ retry = FALSE
  /\ start = [t \in TargetTables |-> EmptyBag]
  /\ edits = IF edited THEN 1 ELSE 0
  /\ StoreSetUp
  /\ NothingCalled

RunNext ==
  \/ StartRun
  \/ StageStep
  \/ MergeDimensionsStep
  \/ MergeFactsStep

\* Runs of run_etl on files that stay as found, under the assumption that
\* every call a run makes returns or raises: a run that can take its next
\* call takes it.
RunSpec ==
  /\ RunInit
  /\ [][RunNext]_vars
  /\ WF_vars(StageStep)
  /\ WF_vars(MergeDimensionsStep)
  /\ WF_vars(MergeFactsStep)

\* ------------------------------------------------- runs and their retries
\* The same program, observed with the starting contents of a failed run
\* kept until the run that follows it on the same files has ended.
EditFileBetweenRuns ==
  /\ status # "running"
  /\ edits < MaxEdits
  /\ \E f \in CsvFiles :
        \/ \E c \in FileContents(f) :
              /\ c # files[f]
              /\ files' = [files EXCEPT ![f] = c]
              /\ UNCHANGED headers
        \/ \E h \in FileHeaders(f) :
              /\ h # headers[f]
              /\ headers' = [headers EXCEPT ![f] = h]
              /\ UNCHANGED files
  /\ edits' = edits + 1
  /\ edited' = TRUE
  /\ status' = "idle"
  /\ pc' = 1
  /\ log' = <<>>
  /\ pre' = db
  /\ retry' = FALSE
  /\ start' = TargetsOf(db)
  /\ UNCHANGED <<db, rerun, aux>>

StartRunOrRetry ==
  /\ status # "running"
  /\ status' = "running"
  /\ pc' = 1
  /\ log' = <<>>
  /\ rerun' = (status = "done" /\ ~edited)
  /\ edited' = FALSE
  /\ retry' = (status = "failed" /\ ~edited)
  /\ start' = IF status = "failed" /\ ~edited THEN start ELSE TargetsOf(db)
  /\ UNCHANGED <<files, headers, db, pre, edits, aux>>

RetryNext ==
  \/ EditFileBetweenRuns
  \/ StartRunOrRetry
  \/ StageStep
  \/ MergeDimensionsStep
  \/ MergeFactsStep

RetrySpec == Init /\ [][RetryNext]_vars

\* ----------------------------------------------------------- setup_database
\* The server as setup_database sees it: whether the database exists, the
\* schemas it holds, and the tables with their rows.
Server(cat, tables) ==
  [database |-> cat.database, schemas |-> cat.schemas, tables |-> tables]

\* The server holds everything setup_database creates.
IsSetUp(s) ==
  /\ s.database
  /\ s.schemas = Schemas
  /\ DOMAIN s.tables = Tables

\* What a call of setup_database finds: "nothing" while any part is missing,
\* "empty" tables, or tables with "rows".
Found(s) ==
  IF ~IsSetUp(s) THEN "nothing"
  ELSE IF \A t \in Tables : s.tables[t] = EmptyBag THEN "empty"
  ELSE "rows"

\* create_database(): SELECT 1 FROM pg_database ..; CREATE DATABASE only
\* when no row came back.
CreateDatabase(s) ==
  IF s.database THEN s ELSE [s EXCEPT !.database = TRUE]

\* create_schemas(): CREATE SCHEMA IF NOT EXISTS for each of the four.
CreateSchemas(s) == [s EXCEPT !.schemas = @ \cup Schemas]

\* Faulty variant: the table is dropped and created anew.
CreateTableReplacing(s, t) ==
  [s EXCEPT !.tables = (t :> EmptyBag) @@ @]

\* CREATE TABLE IF NOT EXISTS t (..): a table that exists is left alone,
\* rows included.
CreateTableIfNotExists(s, t) ==
  IF t \in DOMAIN s.tables THEN s
  ELSE [s EXCEPT !.tables = @ @@ (t :> EmptyBag)]

\* The CREATE TABLE statements of one function, run on one connection.
RECURSIVE CreateTables(_, _)
CreateTables(s, ts) ==
  IF ts = {} THEN s
  ELSE LET t == CHOOSE x \in ts : TRUE
       IN  CreateTables(CreateTableIfNotExists(s, t), ts \ {t})

\* The functions setup_database calls, in program order.
SetupSteps == <<"create_database", "create_schemas",
                "create_dimension_tables", "create_fact_tables",
                "create_staging_tables">>

SetupStep(s, name) ==
  CASE name = "create_database"         -> CreateDatabase(s)
    [] name = "create_schemas"          -> CreateSchemas(s)
    [] name = "create_dimension_tables" -> CreateTables(s, DimTables)
    [] name = "create_fact_tables"      -> CreateTables(s, FactTables)
    [] name = "create_staging_tables"   -> CreateTables(s, StagingTables)

\* setup_database() from its i-th function on.  Each function opens its own
\* connection and commits before it returns; the server answers the first
\* `reached` of them, and psycopg2.connect raises in the next one, which
\* ends setup_database with what the earlier functions committed.
RECURSIVE SetupFrom(_, _, _)
SetupFrom(s, i, reached) ==
  IF i > Len(SetupSteps) THEN [err |-> "none", store |-> s]
  ELSE IF i > reached THEN [err |-> "connect", store |-> s]
  ELSE SetupFrom(SetupStep(s, SetupSteps[i]), i + 1, reached)

\* setup_database()
SetupDatabase(s, reached) == SetupFrom(s, 1, reached)

\* A server on which setup_database has not run yet; the source files are
\* in place.
SetupInit ==
  /\ \E found \in FilesFound : files = found[1] /\ headers = found[2]
  /\ db = <<>>
  /\ status = "idle"
  /\ pc = 1
  /\ log = <<>>
  /\ pre = <<>>
  /\ rerun = FALSE
  /\ edited = (<<files, headers>> # <<GeneratedFiles, GeneratedHeaders>>)
  /\ retry = FALSE
  /\ start = [t \in TargetTables |-> EmptyBag]
  /\ edits = IF edited THEN 1 ELSE 0
  /\ catalog = [database |-> FALSE, schemas |-> {}]
  /\ setups = [n |-> 0, ok |-> FALSE, up |-> FALSE, found |-> "nothing"]
  /\ NothingCalled

\* setup_database() is called, between runs of run_etl.
SetupDatabaseCall ==
  /\ status # "running"
  /\ setups.n < MaxSetups
  /\ \E reached \in 0..Len(SetupSteps) :
        LET s == Server(catalog, db)
            r == SetupDatabase(s, reached)
        IN  /\ catalog' = [database |-> r.store.database,
                           schemas |-> r.store.schemas]
            /\ db' = r.store.tables
            /\ setups' = [n |-> setups.n + 1, ok |-> r.err = "none",
                          up |-> reached = Len(SetupSteps),
                          found |-> Found(s)]
  /\ UNCHANGED <<files, headers, status, pc, log, pre, rerun, edited, retry,
                 start, edits, mgr, frame, cleaned>>

\* run_etl() is called on a store that has been set up.
StartRunAfterSetup ==
  /\ IsSetUp(Server(catalog, db))
  /\ StartRun

SetupNext ==
  \/ SetupDatabaseCall
  \/ StartRunAfterSetup
  \/ StageStep
  \/ MergeDimensionsStep
  \/ MergeFactsStep

SetupSpec == SetupInit /\ [][SetupNext]_vars

\* ------------------------------------------------- the connection managers
\* The exception classes the calls can raise: the subclasses of
\* psycopg2.Error that occur, DatabaseError of best_practices, and classes
\* outside both families.
Psycopg2Errors == {"OperationalError", "ProgrammingError", "InterfaceError"}

\* What the body of a with statement does: it returns ("none") or raises.
BodyOutcomes == {"none", "ProgrammingError", "ValueError"}

\* psycopg2.connect(..) has returned a connection object; closes counts the
\* close() calls it has received.
Connect(by) == [by |-> by, closes |-> 0]

\* conn.close()
Close(c) == [c EXCEPT !.closes = @ + 1]

\* Faulty variant: the close is the last statement of the try block instead
\* of a finally clause.
ExitContextOnReturnOnly(c, raised) ==
  IF raised = "none" THEN Close(c) ELSE c

\* finally: if conn: conn.close()  -- runs when the body returned and when
\* an exception passes through the generator.
ExitContext(c, raised) == Close(c)

\* with DatabaseManager.get_connection() as conn: <body>
\* A psycopg2.Error raised by connect or thrown in by the body is caught
\* and DatabaseError raised in its place; anything else passes through.
GetConnection(up, body) ==
  IF ~up THEN [conns |-> <<>>, raised |-> "DatabaseError"]
  ELSE LET raised == IF body \in Psycopg2Errors THEN "DatabaseError"
                     ELSE body
       IN  [conns |-> <<ExitContext(Connect("get_connection"), raised)>>,
            raised |-> raised]

\* with db_utils.get_db_connection() as conn: <body>
\* A psycopg2.Error is logged and raised again as it is.
GetDbConnection(up, body) ==
  IF ~up THEN [conns |-> <<>>, raised |-> "OperationalError"]
  ELSE [conns |-> <<ExitContext(Connect("get_db_connection"), body)>>,
        raised |-> body]

\* conn.rollback() in the handler of execute_many, after the with statement
\* has been left: the name conn is unbound when get_connection raised before
\* it yielded, and otherwise refers to a connection that get_connection has
\* closed, on which psycopg2 raises InterfaceError.
Rollback(conns) ==
  IF conns = <<>> THEN "UnboundLocalError"
  ELSE IF conns[1].closes > 0 THEN "InterfaceError"
  ELSE "none"

\* DatabaseManager.execute_many(query, params_list) with n parameter sets:
\* the statement for set failAt raises (none when failAt = 0), or the
\* commit does.
ExecuteMany(up, n, failAt, commitFails) ==
  LET body == IF failAt \in 1..n THEN "ProgrammingError"
              ELSE IF commitFails THEN "OperationalError"
              ELSE "none"
      w == GetConnection(up, body)
      rolled == Rollback(w.conns)
  IN  IF w.raised \notin Psycopg2Errors \cup {"DatabaseError"} THEN w
      ELSE [conns |-> w.conns,
            raised |-> IF rolled # "none" THEN rolled ELSE "DatabaseError"]

\* A call has ended: the connections it opened and what it raised are
\* recorded.
AfterCall(op, up, body, r) ==
  /\ mgr' = [conns |-> mgr.conns \o r.conns,
             calls |-> Append(mgr.calls,
                              [op |-> op, up |-> up, body |-> body,
                               raised |-> r.raised])]
  /\ UNCHANGED <<files, headers, db, status, pc, log, pre, rerun, edited,
                 retry, start, edits, catalog, setups, frame, cleaned>>

WithGetConnection ==
  /\ Len(mgr.calls) < MaxCalls
  /\ \E up \in BOOLEAN, body \in BodyOutcomes :
        AfterCall("get_connection", up, IF up THEN body ELSE "not run",
                  GetConnection(up, body))

WithGetDbConnection ==
  /\ Len(mgr.calls) < MaxCalls
  /\ \E up \in BOOLEAN, body \in BodyOutcomes :
        AfterCall("get_db_connection", up, IF up THEN body ELSE "not run",
                  GetDbConnection(up, body))

ExecuteManyCall ==
  /\ Len(mgr.calls) < MaxCalls
  /\ \E up \in BOOLEAN, n \in 0..MaxParams, commitFails \in BOOLEAN :
       \E failAt \in 0..n :
          AfterCall("execute_many", up,
                    IF ~up THEN "not run"
                    ELSE IF failAt > 0 THEN "execute raised"
                    ELSE IF commitFails THEN "commit raised"
                    ELSE "none",
                    ExecuteMany(up, n, failAt, commitFails))

ManagerNext ==
  \/ WithGetConnection
  \/ WithGetDbConnection
  \/ ExecuteManyCall

\* Calls through the connection managers, on the store as set up.
ManagerSpec == Init /\ [][ManagerNext]_vars

\* --------------------------------------------------------------- _clean_data
\* A frame has a numeric column A and a text column B of equal length.  A
\* cell is <<v>> for a value v and <<>> for a missing value (NaN, None).
\* Numbers are written in halves (2 is 1.0, 3 is 1.5), so that the median
\* of two values is a number of the model.
NumberCells == {<<>>, <<2>>, <<4>>}
TextCells   == {<<>>, <<"a">>, <<"b">>}

Missing(cell) == cell = <<>>

\* The dtypes pandas can give a column whose values are of dtype natural:
\* that dtype, with or without missing cells; a column in which every cell
\* is missing is float64 when read by read_csv and object when built from a
\* list of None.
Dtypes(cells, natural) ==
  IF \A i \in DOMAIN cells : Missing(cells[i]) THEN {"float64", "object"}
  ELSE {natural}

\* The frames of n rows.
FramesOfLength(n) ==
  UNION {UNION {{[A |-> a, B |-> b, dtype |-> [A |-> da, B |-> db_]] :
                   da \in Dtypes(a, "float64"), db_ \in Dtypes(b, "object")} :
                b \in [1..n -> TextCells]} :
         a \in [1..n -> NumberCells]}

\* The frames handed to _clean_data: up to MaxFrameRows rows.
Frames == UNION {FramesOfLength(n) : n \in 0..MaxFrameRows}

Columns == {"A", "B"}

\* The members of a set of row positions, in ascending order.
Ascending(S) ==
  [k \in 1..Cardinality(S) |->
     CHOOSE x \in S : Cardinality({y \in S : y < x}) = k - 1]

\* df.drop_duplicates(): the first of the rows equal in every column is
\* kept; missing cells compare equal to each other.
DropDuplicates(f) ==
  LET keep == {i \in DOMAIN f.A :
                 ~\E j \in 1..(i - 1) : f.A[j] = f.A[i] /\ f.B[j] = f.B[i]}
      idx  == Ascending(keep)
  IN  [A |-> [k \in DOMAIN idx |-> f.A[idx[k]]],
       B |-> [k \in DOMAIN idx |-> f.B[idx[k]]],
       dtype |-> f.dtype]

\* Series.median(): the middle of the values present, the mean of the two
\* middle ones when their number is even, and NaN (<<>>) when none is
\* present.
Median(cells) ==
  LET present == {i \in DOMAIN cells : ~Missing(cells[i])}
      vals == SortSeq([k \in 1..Cardinality(present) |->
                          cells[Ascending(present)[k]][1]],
                      LAMBDA x, y : x < y)
      n == Len(vals)
  IN  IF n = 0 THEN <<>>
      ELSE IF n % 2 = 1 THEN <<vals[(n + 1) \div 2]>>
      ELSE <<(vals[n \div 2] + vals[n \div 2 + 1]) \div 2>>

\* Series.fillna(value): each missing cell takes the value; a value that is
\* itself NaN leaves the cell missing.
Fillna(cells, value) ==
  [i \in DOMAIN cells |-> IF Missing(cells[i]) THEN value ELSE cells[i]]

\* The loop body of _clean_data for column col.
CleanColumn(cells, dtype) ==
  IF dtype = "object" THEN Fillna(cells, <<"Unknown">>)
  ELSE Fillna(cells, Median(cells))

\* DataProcessor._clean_data(df)
CleanData(f) ==
  LET d == DropDuplicates(f)
  IN  [A |-> CleanColumn(d.A, d.dtype.A),
       B |-> CleanColumn(d.B, d.dtype.B),
       dtype |-> d.dtype]

\* A frame is about to be handed to _clean_data.
CleanInit ==
  /\ files = GeneratedFiles
  /\ headers = GeneratedHeaders
  /\ db = [t \in Tables |-> EmptyBag]
  /\ status = "idle"
  /\ pc = 1
  /\ log = <<>>
  /\ pre = [t \in Tables |-> EmptyBag]
  /\ rerun = FALSE
  /\ edited = FALSE
  /\ retry = FALSE
  /\ start = [t \in TargetTables |-> EmptyBag]
  /\ edits = 0
  /\ StoreSetUp
  /\ mgr = [conns |-> <<>>, calls |-> <<>>]
  /\ frame \in Frames
  /\ cleaned = <<>>

\* _clean_data(frame) is called and returns.
CleanDataCall ==
  /\ cleaned = <<>>
  /\ cleaned' = <<CleanData(frame)>>
  /\ UNCHANGED <<files, headers, db, status, pc, log, pre, rerun, edited,
                 retry, start, edits, catalog, setups, mgr, frame>>

CleanNext == CleanDataCall

CleanSpec == CleanInit /\ [][CleanNext]_vars

\* ---------------------------------------------------------------- claims
Last == log[Len(log)]

Called(op) == log # <<>> /\ Last.op = op

Succeeded(op) == Called(op) /\ Last.ok

MergeOps == {"load_dimension_tables", "load_fact_tables"}

StatementsOf(op) ==
  IF op = "load_dimension_tables" THEN DimStatements ELSE FactStatements

\* C1: after a successful load_csv_to_staging(file, table) the staging
\* table holds exactly the rows of the source file, as a multiset, and
\* none of the rows it held before.
C1_StagingReplaced ==
  Succeeded("load_csv_to_staging") => db[Last.table] = SeqToBag(files[Last.csv])

\* A load over a staging table that held other rows, of a file with a
\* duplicated row.
C1_Witness ==
  /\ Succeeded("load_csv_to_staging")
  /\ pre[Last.table] # EmptyBag
  /\ pre[Last.table] # db[Last.table]
  /\ \E r \in BagToSet(db[Last.table]) : CopiesIn(r, db[Last.table]) > 1

\* C2: in every reachable state each dimension and fact table holds at
\* most one row per primary-key value.
C2_OneRowPerKey ==
  \A t \in TargetTables :
    \A k \in KeysIn(db[t], KeyOf[t]) : KeyCount(db[t], KeyOf[t], k) = 1

\* A merge has met a key its target already held and changed that row.
C2_Witness ==
  /\ Succeeded("load_dimension_tables")
  /\ \E old \in BagToSet(pre["dim_product"]) :
        /\ old.product_id \in KeysIn(pre["stg_products"], "product_id")
        /\ old \notin BagToSet(db["dim_product"])
        /\ old.product_id \in KeysIn(db["dim_product"], "product_id")

\* C3: for every dimension key held by both the staging and the dimension
\* table with differing non-key attributes, after the dimension merge the
\* dimension row has the staging row's value in every column but the key
\* and created_date, and the created_date it had before.
C3_UpsertCorrect ==
  Succeeded("load_dimension_tables") =>
    \A i \in DOMAIN DimStatements :
      LET st == DimStatements[i]
          kc == KeyOf[st.target]
      IN  \A old \in BagToSet(pre[st.target]) :
            \A s \in BagToSet(pre[st.staging]) :
              (old[kc] = s[kc] /\ \E c \in DOMAIN old \ {kc} : old[c] # s[c])
                => \E new \in BagToSet(db[st.target]) :
                     /\ new[kc] = s[kc]
                     /\ \A c \in DOMAIN new \ {kc, "created_date"} :
                          new[c] = s[c]
                     /\ "created_date" \in DOMAIN new
                          => new.created_date = old.created_date

\* A product row updated from a staging row with another name and another
\* created_date.
C3_Witness ==
  /\ Succeeded("load_dimension_tables")
  /\ \E old \in BagToSet(pre["dim_product"]) :
       \E s \in BagToSet(pre["stg_products"]) :
          /\ old.product_id = s.product_id
          /\ old.product_name # s.product_name
          /\ old.created_date # s.created_date

\* C4: for every key held by a staging table and absent from its target,
\* after the merge the target holds exactly one row with that key, equal to
\* the staging row in every column.
C4_InsertCorrect ==
  \A op \in MergeOps :
    Succeeded(op) =>
      \A i \in DOMAIN StatementsOf(op) :
        LET st == StatementsOf(op)[i]
            kc == KeyOf[st.target]
        IN  \A s \in BagToSet(pre[st.staging]) :
              s[kc] \notin KeysIn(pre[st.target], kc)
                => /\ KeyCount(db[st.target], kc, s[kc]) = 1
                   /\ CopiesIn(s, db[st.target]) = 1

\* A new product key merged into a dimension that already held a row, and a
\* new sale merged into fact_sales.
C4_Witness ==
  \/ /\ Succeeded("load_dimension_tables")
     /\ pre["dim_product"] # EmptyBag
     /\ \E s \in BagToSet(pre["stg_products"]) :
          s.product_id \notin KeysIn(pre["dim_product"], "product_id")
  \/ /\ Succeeded("load_fact_tables")
     /\ \E s \in BagToSet(pre["stg_sales"]) :
          s.sale_id \notin KeysIn(pre["fact_sales"], "sale_id")

\* C5: a merge, successful or not, leaves every target row whose key is
\* absent from staging as it was.
C5_NoDeletion ==
  \A op \in MergeOps :
    Called(op) =>
      \A i \in DOMAIN StatementsOf(op) :
        LET st == StatementsOf(op)[i]
            kc == KeyOf[st.target]
        IN  \A r \in BagToSet(pre[st.target]) :
              r[kc] \notin KeysIn(pre[st.staging], kc)
                => CopiesIn(r, db[st.target]) = CopiesIn(r, pre[st.target])

\* A dimension merge that changed dim_product while a product absent from
\* staging was there.
C5_Witness ==
  /\ Succeeded("load_dimension_tables")
  /\ db["dim_product"] # pre["dim_product"]
  /\ \E r \in BagToSet(pre["dim_product"]) :
       r.product_id \notin KeysIn(pre["stg_products"], "product_id")

\* C6: a run that follows a completed run on unchanged source files leaves
\* every dimension and fact table as the first run left it: none of its
\* calls changes any of them.
C6_Idempotent ==
  (rerun /\ log # <<>>) => \A t \in TargetTables : db[t] = pre[t]

\* The second of two runs on the same files has completed, over tables
\* that hold rows.
C6_Witness ==
  /\ rerun
  /\ status = "done"
  /\ db["dim_product"] # EmptyBag
  /\ db["fact_sales"] # EmptyBag

\* A staging fact row references a dimension key the dimension lacks.
DanglingFact(store) ==
  \E i \in DOMAIN FactStatements :
    LET st == FactStatements[i]
    IN  \E r \in BagToSet(store[st.staging]) :
          \E fk \in ForeignKeys[st.target] :
            \A d \in BagToSet(store[fk.ref]) : d[KeyOf[fk.ref]] # r[fk.col]

\* A fact staging table holds two rows with one key.
DuplicateFactKey(store) ==
  \E i \in DOMAIN FactStatements :
    LET st == FactStatements[i]
        kc == KeyOf[st.target]
    IN  \E k \in KeysIn(store[st.staging], kc) :
          KeyCount(store[st.staging], kc, k) > 1

\* load_fact_tables got its connection and executed.
FactMergeExecuted == Called("load_fact_tables") /\ Last.err # "connect"

FactsUnchanged == \A t \in FactTables : db[t] = pre[t]

\* C7 as stated: a dangling staging fact row makes the fact merge fail with
\* a referential-integrity error, and the fact tables gain no row.
C7_FailsWithForeignKeyError ==
  (FactMergeExecuted /\ DanglingFact(pre))
    => (Last.err = "foreign_key" /\ FactsUnchanged)

\* C7 as amended: a dangling staging fact row makes the fact merge fail and
\* the fact tables gain no row; the error is the referential-integrity
\* error unless a key duplicated in a fact staging table raised the
\* cardinality error first.
C7_FailsWithoutFactRows ==
  (FactMergeExecuted /\ DanglingFact(pre))
    => /\ ~Last.ok
       /\ FactsUnchanged
       /\ \/ Last.err = "foreign_key"
          \/ Last.err = "cardinality" /\ DuplicateFactKey(pre)

\* A fact merge stopped by the foreign key of a sale whose product is
\* missing, over a fact table that held rows.
C7_Witness ==
  /\ FactMergeExecuted
  /\ Last.err = "foreign_key"
  /\ \E r \in BagToSet(pre["stg_sales"]) :
       r.product_id \notin KeysIn(pre["dim_product"], "product_id")

\* C8: in every run no dimension merge starts before all six staging loads
\* have completed, and no fact merge starts before the dimension merge has
\* completed and committed.
C8_PhaseOrder ==
  \A i \in DOMAIN log :
    /\ log[i].op = "load_dimension_tables"
         => \A t \in StagingTables :
              \E j \in 1..(i - 1) :
                 /\ log[j].op = "load_csv_to_staging"
                 /\ log[j].table = t
                 /\ log[j].ok
    /\ log[i].op = "load_fact_tables"
         => \E j \in 1..(i - 1) :
               /\ log[j].op = "load_dimension_tables"
               /\ log[j].ok

\* A run that went through all its phases.
C8_Witness ==
  /\ status = "done"
  /\ Called("load_fact_tables")

\* C9: the first failing step aborts the run: it is the last call of the
\* run, no call is made twice, and run_etl ends failed with its error.
C9_FirstFailureAborts ==
  /\ \A i \in DOMAIN log : ~log[i].ok => i = Len(log)
  /\ \A i \in DOMAIN log : \A j \in DOMAIN log :
        (log[i].op = log[j].op /\ log[i].table = log[j].table) => i = j
  /\ (log # <<>> /\ ~Last.ok) => (status = "failed" /\ Last.err # "none")
  /\ status = "failed" => (log # <<>> /\ ~Last.ok)

\* A run failed at a staging load, after other loads, with calls left.
C9_Witness ==
  /\ status = "failed"
  /\ Len(log) > 1
  /\ Len(log) < Len(RunSteps)

\* C10: when the fact merge fails, the dimension tables keep what the
\* dimension merge of the run committed (every staging key with the
\* staging values of the SET list) and the staging tables keep the rows
\* loaded in the run.
C10_NoRollback ==
  (Called("load_fact_tables") /\ ~Last.ok) =>
    /\ \A t \in DimTables \cup StagingTables : db[t] = pre[t]
    /\ \A i \in DOMAIN DimStatements :
         LET st == DimStatements[i]
             kc == KeyOf[st.target]
         IN  \A s \in BagToSet(db[st.staging]) :
               \E d \in BagToSet(db[st.target]) :
                  /\ d[kc] = s[kc]
                  /\ \A c \in UpdateSet[st.target] : d[c] = s[c]
    /\ ~edited =>
         \A i \in DOMAIN RunSteps :
            RunSteps[i].op = "load_csv_to_staging"
              => db[RunSteps[i].table] = SeqToBag(files[RunSteps[i].csv])

\* The fact merge failed on a foreign key in a run whose dimension merge
\* filled the dimensions; no fact was ever loaded.
C10_Witness ==
  /\ Called("load_fact_tables")
  /\ Last.err = "foreign_key"
  /\ db["dim_product"] # EmptyBag
  /\ \A t \in FactTables : db[t] = EmptyBag

\* Every distinct staging row of statement st is in its target: the target
\* holds a row with the key and the SET-list values of each.
AllApplied(st) ==
  \A s \in BagToSet(pre[st.staging]) :
    \E d \in BagToSet(db[st.target]) :
       /\ d[KeyOf[st.target]] = s[KeyOf[st.target]]
       /\ \A c \in UpdateSet[st.target] : d[c] = s[c]

NoneApplied(st) == db[st.target] = pre[st.target]

\* C11: the merge of one entity kind is atomic: after a merge call,
\* successful or failed, each target either holds every distinct staging
\* row of its kind or is as it was before the call.
C11_MergeAtomic ==
  \A op \in MergeOps :
    Called(op) =>
      \A i \in DOMAIN StatementsOf(op) :
        AllApplied(StatementsOf(op)[i]) \/ NoneApplied(StatementsOf(op)[i])

\* A fact merge failed on the foreign key of one sale while another sale of
\* the same staging table, new to fact_sales, had every key it references.
C11_Witness ==
  /\ FactMergeExecuted
  /\ Last.err = "foreign_key"
  /\ \E r \in BagToSet(pre["stg_sales"]) :
        /\ ~FkViolation(pre, "fact_sales", {r})
        /\ r \notin BagToSet(pre["fact_sales"])
  /\ ~AllApplied(FactStatements[1])

\* The bulk insert of load_csv_to_staging raised, after its TRUNCATE.
InsertFailed == Called("load_csv_to_staging") /\ Last.err = "insert"

\* C12 as stated: when the bulk insert fails after the truncate, the staging
\* table is left truncated or partially populated and no longer holds its
\* pre-call rows.
C12_StagingLeftTruncated ==
  (InsertFailed /\ pre[Last.table] # EmptyBag)
    => db[Last.table] # pre[Last.table]

\* C12 as amended: the TRUNCATE and the bulk insert are one transaction,
\* committed only after the insert; when the bulk insert fails, the staging
\* table, like every other table, holds its pre-call rows.
C12_FailedInsertKeepsRows == InsertFailed => db = pre

\* A bulk insert failed over a staging table that held rows.
C12_Witness == InsertFailed /\ pre[Last.table] # EmptyBag

\* C13: every connection opened by load_csv_to_staging, load_dimension_tables
\* or load_fact_tables is closed when the operation ends, whether it
\* returned or raised.
C13_ConnectionsClosed == \A i \in DOMAIN log : log[i].conn # "open"

\* C14: in every reachable state every row of fact_sales and fact_inventory
\* references date, product, store and (for sales) customer keys held by
\* the corresponding dimension tables.
C14_FactsReferenceDimensions ==
  \A t \in FactTables :
    \A r \in BagToSet(db[t]) :
      \A fk \in ForeignKeys[t] :
        \E d \in BagToSet(db[fk.ref]) : d[KeyOf[fk.ref]] = r[fk.col]

\* Facts are in place from an earlier run, and the fact merge of a later run
\* met a staging row with a product key no dimension row has.
C14_Witness ==
  /\ FactMergeExecuted
  /\ DanglingFact(pre)
  /\ \A t \in FactTables : db[t] # EmptyBag

\* A fact staging table holds several identical copies of a row, and no key
\* of a fact staging table comes with two different rows.
IdenticalFactCopies(store) ==
  /\ \E i \in DOMAIN FactStatements :
       \E r \in BagToSet(store[FactStatements[i].staging]) :
          CopiesIn(r, store[FactStatements[i].staging]) > 1
  /\ \A i \in DOMAIN FactStatements :
       LET st == FactStatements[i]
       IN  \A r \in BagToSet(store[st.staging]) :
             RowsWithKey(store[st.staging], KeyOf[st.target],
                         r[KeyOf[st.target]]) = {r}

\* C15: the fact merge reads distinct staging rows as the dimension merge
\* does: when a fact staging table holds several identical copies of a row
\* (and every referenced dimension key exists), the fact merge succeeds and
\* the fact table ends with exactly one row for each staging key.
C15_FactMergeReadsDistinct ==
  (FactMergeExecuted /\ IdenticalFactCopies(pre) /\ ~DanglingFact(pre))
    => /\ Last.ok
       /\ \A i \in DOMAIN FactStatements :
            LET st == FactStatements[i]
            IN  \A k \in KeysIn(pre[st.staging], KeyOf[st.target]) :
                  KeyCount(db[st.target], KeyOf[st.target], k) = 1

\* C16: a run that fails, followed by a complete run on the same source
\* files, leaves the dimension and fact tables as one successful run from
\* the starting contents of the failed run leaves them.
C16_RetryEqualsOneRun ==
  (retry /\ status = "done" /\ ~edited) =>
    /\ RunEtl(start, headers, files).err = "none"
    /\ TargetsOf(db) = TargetsOf(RunEtl(start, headers, files).db)

\* A complete run has followed a failed run on the same files, over
\* dimension and fact tables that held other rows when the failed run
\* started.
C16_Witness ==
  /\ retry
  /\ status = "done"
  /\ ~edited
  /\ start["dim_product"] # EmptyBag
  /\ start["dim_product"] # db["dim_product"]
  /\ start["fact_sales"] # db["fact_sales"]

\* The four statements of load_dimension_tables in every order.
DimOrders ==
  {[i \in DOMAIN DimStatements |-> DimStatements[p[i]]] :
     p \in {q \in [DOMAIN DimStatements -> DOMAIN DimStatements] :
              \A i \in DOMAIN q, j \in DOMAIN q : q[i] = q[j] => i = j}}

\* C17: the order of the four dimension merges is irrelevant: whatever the
\* store held when load_dimension_tables was called, the statements run in
\* any other order, in one transaction, leave the four dimension tables as
\* the call left them.
C17_DimensionOrderIrrelevant ==
  (Called("load_dimension_tables") /\ Last.err # "connect") =>
    \A order \in DimOrders :
      LET r == Commit(pre, ExecAll(pre, order))
      IN  \A t \in DimTables : r.db[t] = db[t]

\* A dimension merge that changed each of the four dimension tables, from
\* a products file of two keys.
C17_Witness ==
  /\ Succeeded("load_dimension_tables")
  /\ \A t \in DimTables : pre[t] # db[t]
  /\ Cardinality(KeysIn(db["dim_product"], "product_id")) > 1

\* The staging table of statement st holds two different rows with one key.
ConflictingCopies(store, st) ==
  \E r1 \in BagToSet(store[st.staging]) :
    \E r2 \in BagToSet(store[st.staging]) :
       r1 # r2 /\ r1[KeyOf[st.target]] = r2[KeyOf[st.target]]

\* A merge got its connection and found conflicting copies in the staging
\* table of one of its statements.
MergedConflictingCopies(op) ==
  /\ Called(op)
  /\ Last.err # "connect"
  /\ \E i \in DOMAIN StatementsOf(op) :
        ConflictingCopies(pre, StatementsOf(op)[i])

\* C18 as stated: when a staging table holds two rows with one key and
\* differing attribute values, the merge completes and the target holds
\* exactly one row for that key, with the updatable attributes of one of
\* the two staging rows.
C18_ConflictingCopiesMerged ==
  \A op \in MergeOps :
    MergedConflictingCopies(op) =>
      /\ Last.ok
      /\ \A i \in DOMAIN StatementsOf(op) :
           LET st == StatementsOf(op)[i]
               kc == KeyOf[st.target]
           IN  \A s \in BagToSet(pre[st.staging]) :
                 /\ KeyCount(db[st.target], kc, s[kc]) = 1
                 /\ \E d \in BagToSet(db[st.target]) :
                      \E s2 \in RowsWithKey(pre[st.staging], kc, s[kc]) :
                         /\ d[kc] = s[kc]
                         /\ \A c \in UpdateSet[st.target] : d[c] = s2[c]

\* C18 as amended: when a staging table holds two rows with one key and
\* differing attribute values, the merge fails and commits nothing; a
\* dimension merge fails with the error of a statement that would affect a
\* row twice, a fact merge with that error or a foreign-key error.
C18_ConflictingCopiesRejected ==
  \A op \in MergeOps :
    MergedConflictingCopies(op) =>
      /\ ~Last.ok
      /\ db = pre
      /\ Last.err \in {"cardinality", "foreign_key"}
      /\ op = "load_dimension_tables" => Last.err = "cardinality"

\* A dimension merge met two product rows of one key and different names,
\* over a dimension table that held rows.
C18_Witness ==
  /\ MergedConflictingCopies("load_dimension_tables")
  /\ ConflictingCopies(pre, DimStatements[1])
  /\ pre["dim_product"] # EmptyBag

\* load_csv_to_staging read its file and got its connection; the file has
\* not been replaced since.
LoadExecuted ==
  /\ Called("load_csv_to_staging")
  /\ Last.err \notin {"io", "connect"}
  /\ ~edited

\* The rows of file f, each reduced to the staging table's columns with the
\* value of the same-named source column.
RowsByName(f) ==
  SeqToBag([j \in DOMAIN files[f] |->
              [c \in Range(StagingColumns[StagingOf[f]]) |->
                 Cell(files[f][j], c)]])

HeaderIsSuperset(f) ==
  Range(StagingColumns[StagingOf[f]]) \subseteq Range(headers[f])

\* C19 as stated: load_csv_to_staging succeeds for a file whose header
\* names a superset of the staging table's columns, in any order, and each
\* staging row receives the values of its same-named source columns.
C19_SupersetHeaderLoads ==
  (LoadExecuted /\ HeaderIsSuperset(Last.csv))
    => (Last.ok /\ db[Last.table] = RowsByName(Last.csv))

\* C19 as amended: load_csv_to_staging succeeds for a file whose header
\* names exactly the staging table's columns, in any order, and each
\* staging row receives the values of its same-named source columns; a
\* header with a further column makes the INSERT of a file with rows fail,
\* and nothing changes.
C19_ExactHeaderLoads ==
  LoadExecuted =>
    IF \/ Range(headers[Last.csv]) = Range(StagingColumns[Last.table])
       \/ files[Last.csv] = <<>>
    THEN Last.ok /\ db[Last.table] = RowsByName(Last.csv)
    ELSE Last.err = "insert" /\ db = pre

\* A file with rows and its columns in another order than the table's has
\* been loaded.
C19_Witness ==
  /\ LoadExecuted
  /\ Last.ok
  /\ files[Last.csv] # <<>>
  /\ headers[Last.csv] # StagingColumns[Last.table]
  /\ Range(headers[Last.csv]) = Range(StagingColumns[Last.table])

\* C20: a merge leaves the staging tables unchanged: after
\* load_dimension_tables or load_fact_tables, successful or failed, every
\* staging table holds the rows it held before the call, which are the
\* rows the run's staging load of that table stored.
C20_MergeKeepsStaging ==
  \A op \in MergeOps :
    Called(op) =>
      /\ \A t \in StagingTables : db[t] = pre[t]
      /\ ~edited => \A f \in CsvFiles : db[StagingOf[f]] = RowsByName(f)

\* A fact merge that wrote fact rows has ended and the staging tables it
\* and the dimension merge read still hold rows.
C20_Witness ==
  /\ Succeeded("load_fact_tables")
  /\ db["fact_sales"] # pre["fact_sales"]
  /\ \A t \in StagingTables : db[t] # EmptyBag


EarlierUpsertChanged(op) ==
  \E i \in DOMAIN StatementsOf(op) :
    LET r == ExecAll(pre, SubSeq(StatementsOf(op), 1, i))
    IN  r.err = "none" /\ r.db # pre

\* C25: the upserts of one merge call are committed together or not at all:
\* after a load_dimension_tables or load_fact_tables call in which a statement
\* failed, every target of the call is as it was before the call; after a
\* call that succeeded, every target holds the rows of its staging table.
C25_UpsertsCommitTogether ==
  \A op \in MergeOps :
    Called(op) =>
      IF Last.ok
      THEN \A i \in DOMAIN StatementsOf(op) : AllApplied(StatementsOf(op)[i])
      ELSE \A i \in DOMAIN StatementsOf(op) : NoneApplied(StatementsOf(op)[i])

\* A merge call failed at a statement after an earlier statement of the same
\* call had changed its target inside the transaction.
C25_Witness ==
  \E op \in MergeOps :
    /\ Called(op)
    /\ Last.err \in {"cardinality", "foreign_key"}
    /\ EarlierUpsertChanged(op)


\* ---------------------------------------------------------------- C26
\* The committed store holds, for statement st, every staging row of its
\* kind in the target.
Merged(st) ==
  \A s \in BagToSet(db[st.staging]) :
    \E d \in BagToSet(db[st.target]) :
       /\ d[KeyOf[st.target]] = s[KeyOf[st.target]]
       /\ \A c \in UpdateSet[st.target] : d[c] = s[c]

\* C26: run_etl is in Done only if each of its calls, the six staging loads,
\* the dimension merge with its four upserts and the fact merge with its two
\* upserts, was made in program order, succeeded and reached its commit; the
\* store then holds the rows of the six files in the staging tables and every
\* staging row in its dimension or fact table.
C26_DoneOnlyIfAllSucceeded ==
  status = "done" =>
    /\ Len(log) = Len(RunSteps)
    /\ \A i \in DOMAIN log :
         /\ log[i].op = RunSteps[i].op
         /\ log[i].table = RunSteps[i].table
         /\ log[i].ok
         /\ log[i].conn = "closed"
    /\ \A f \in CsvFiles : db[StagingOf[f]] = RowsByName(f)
    /\ \A i \in DOMAIN DimStatements : Merged(DimStatements[i])
    /\ \A i \in DOMAIN FactStatements : Merged(FactStatements[i])

\* A run is in Done after a sale of the source file changed its quantity.
C26_Witness ==
  /\ status = "done"
  /\ \E r \in BagToSet(db["fact_sales"]) : r.quantity = 1


\* ---------------------------------------------------------------- C27
\* C27: a staging load touches only its own staging table: after a call of
\* load_csv_to_staging(file, T), successful or failed, the other five staging
\* tables and every dimension and fact table are as they were before it.
C27_LoadTouchesOnlyItsTable ==
  Called("load_csv_to_staging") =>
    \A t \in Tables \ {Last.table} : db[t] = pre[t]

\* A load has replaced the rows of its staging table while another staging
\* table, a dimension table and a fact table held rows.
C27_Witness ==
  /\ Succeeded("load_csv_to_staging")
  /\ db[Last.table] # pre[Last.table]
  /\ \E t \in StagingTables \ {Last.table} : pre[t] # EmptyBag
  /\ \E t \in DimTables : pre[t] # EmptyBag
  /\ \E t \in FactTables : pre[t] # EmptyBag


\* ---------------------------------------------------------------- C28
\* C28: when the source file cannot be read, load_csv_to_staging fails
\* before it issues any store operation: it has opened no connection, hence
\* run no TRUNCATE, and the staging table, like the whole store, keeps the
\* rows it had before the call.
C28_UnreadableFileTouchesNothing ==
  (Called("load_csv_to_staging") /\ Last.err = "io") =>
    /\ ~Last.ok
    /\ Last.conn = "none"
    /\ db = pre

\* A load of an unreadable file over a staging table that held rows.
C28_Witness ==
  /\ Called("load_csv_to_staging")
  /\ Last.err = "io"
  /\ pre[Last.table] # EmptyBag


\* ---------------------------------------------------------------- C29
\* The number of calls of operation op the current run has made.
CallsOf(op) == Cardinality({i \in DOMAIN log : log[i].op = op})

\* C29: provided every call returns or raises, every run of run_etl ends in
\* Done or in Failed, and at any moment it has made at most six staging
\* loads, one dimension merge (four upserts) and one fact merge (two
\* upserts).
C29_RunTerminates ==
  /\ (status = "running") ~> (status \in {"done", "failed"})
  /\ [](/\ CallsOf("load_csv_to_staging") <= 6
        /\ CallsOf("load_dimension_tables") <= 1
        /\ Len(DimStatements) = 4
        /\ CallsOf("load_fact_tables") <= 1
        /\ Len(FactStatements) = 2
        /\ status \in {"done", "failed"} => Len(log) \in 1..Len(RunSteps))

\* A run has ended in Failed at its last call, after six loads and the
\* dimension merge.
C29_Witness ==
  /\ status = "failed"
  /\ CallsOf("load_csv_to_staging") = 6
  /\ CallsOf("load_dimension_tables") = 1
  /\ CallsOf("load_fact_tables") = 1


\* ---------------------------------------------------------------- C30
\* C30: setup_database is idempotent: a call made while the server answers,
\* on a store that is already set up, succeeds and leaves the database, the
\* schemas, the twelve tables and every row in them as they were.
C30_SetupIdempotent ==
  [][(setups'.n # setups.n /\ IsSetUp(Server(catalog, db)) /\ setups'.up)
        => (setups'.ok /\ catalog' = catalog /\ db' = db)]_vars

\* setup_database has run with success on a store that was set up and
\* held rows.
C30_Witness ==
  /\ setups.n > 1
  /\ setups.ok
  /\ setups.found = "rows"
  /\ \E t \in FactTables : db[t] # EmptyBag


\* ---------------------------------------------------------------- C22
\* C22: every connection obtained from DatabaseManager.get_connection or
\* from db_utils.get_db_connection has been closed exactly once when its
\* with statement has been left, whether the body returned or raised; each
\* with statement that got a connection accounts for one of them.
C22_ClosedExactlyOnce ==
  /\ \A i \in DOMAIN mgr.conns : mgr.conns[i].closes = 1
  /\ Len(mgr.conns) = Cardinality({i \in DOMAIN mgr.calls : mgr.calls[i].up})

\* One with statement was left by an exception of its body and another by
\* its body's return, one on each of the two context managers.
C22_Witness ==
  \E i, j \in DOMAIN mgr.calls :
    /\ mgr.calls[i].op = "get_connection"
    /\ mgr.calls[i].up
    /\ mgr.calls[i].body = "ProgrammingError"
    /\ mgr.calls[j].op = "get_db_connection"
    /\ mgr.calls[j].up
    /\ mgr.calls[j].body = "none"

\* ---------------------------------------------------------------- C23
\* The batch of an execute_many call failed: the connection could not be
\* opened, or a statement or the commit raised a database error.
BatchFailed(c) ==
  /\ c.op = "execute_many"
  /\ c.body \in {"not run", "execute raised", "commit raised"}

\* C23: execute_many raises DatabaseError whenever its batch fails, and
\* no exception of another class leaves it.
C23_RaisesDatabaseError ==
  \A i \in DOMAIN mgr.calls :
    mgr.calls[i].op = "execute_many" =>
      /\ BatchFailed(mgr.calls[i]) => mgr.calls[i].raised = "DatabaseError"
      /\ mgr.calls[i].raised \in {"none", "DatabaseError"}


\* ---------------------------------------------------------------- C24
HasMissing(f) ==
  \E col \in Columns : \E i \in DOMAIN f[col] : Missing(f[col][i])

\* C24: for every input frame, the frame _clean_data returns has no missing
\* value in any column.
C24_NoMissingValues == cleaned # <<>> => ~HasMissing(cleaned[1])

\* C24, what the code does: a column of the returned frame has a missing value only
\* if it is not of dtype object and every cell of it in the input frame is
\* missing; in every other column no value is missing.  The returned frame
\* has one row for each distinct row of the input frame.
C24_MissingOnlyInEmptyNumericColumns ==
  cleaned # <<>> =>
    /\ \A col \in Columns :
         (\E i \in DOMAIN cleaned[1][col] : Missing(cleaned[1][col][i]))
           => /\ frame.dtype[col] # "object"
              /\ \A i \in DOMAIN frame[col] : Missing(frame[col][i])
    /\ Len(cleaned[1].A) =
         Cardinality({<<frame.A[i], frame.B[i]>> : i \in DOMAIN frame.A})
    /\ Len(cleaned[1].B) = Len(cleaned[1].A)

\* _clean_data has filled a missing number with the median of two values
\* and a missing text with 'Unknown'.
C24_Witness ==
  /\ cleaned # <<>>
  /\ frame.dtype = [A |-> "float64", B |-> "object"]
  /\ \E i \in DOMAIN cleaned[1].A :
        Missing(frame.A[i]) /\ cleaned[1].A[i] = <<3>>
  /\ \E i \in DOMAIN cleaned[1].B :
        Missing(frame.B[i]) /\ cleaned[1].B[i] = <<"Unknown">>

====
